---- MODULE Spec2Model ----
(***************************************************************************)
(* Model of clientutils/fileaccess.py: FileAccessResource and the GET      *)
(* /file route.  Strings are sequences of one-character strings, a         *)
(* resolved pathlib.Path is the sequence of its components, and the        *)
(* filesystem maps every path of a small universe to what is stored there. *)
(* Every filesystem read of the handler is a step of its own, so that the  *)
(* filesystem can change between two reads of one request.                 *)
(***************************************************************************)
EXTENDS Integers, Sequences, FiniteSets, TLC

VARIABLES fs, base_url, path_mapping, system, req, fsChanges, starts, call

vars == <<fs, base_url, path_mapping, system, req, fsChanges, starts, call>>

(***************************************************************************)
(* Bounds of the model.                                                    *)
(***************************************************************************)
\* requests started in one behaviour
MaxStarts == 1
\* filesystem changes made by other processes in one behaviour
MaxFsChanges == 1

\* the request slots (workers of the host server)
Requests == {1}

(***************************************************************************)
(* Strings.                                                                *)
(***************************************************************************)
UpperCase == <<"A","B","C","D","E","F","G","H","I","J","K","L","M",
               "N","O","P","Q","R","S","T","U","V","W","X","Y","Z">>
LowerCase == <<"a","b","c","d","e","f","g","h","i","j","k","l","m",
               "n","o","p","q","r","s","t","u","v","w","x","y","z">>
Digits == {"0","1","2","3","4","5","6","7","8","9"}

\* the NUL character, which no operating-system path may contain
NUL == "\\0"

\* str.lower() on one character
LowerChar(c) ==
    IF \E i \in 1..26 : UpperCase[i] = c
    THEN LowerCase[CHOOSE i \in 1..26 : UpperCase[i] = c]
    ELSE c

\* the string as it is, in whatever case
lower_unchanged(s) == s

\* str.lower()
lower(s) == [i \in 1..Len(s) |-> LowerChar(s[i])]

\* str.lstrip(chars)
RECURSIVE lstrip(_, _)
lstrip(s, chars) ==
    IF s # <<>> /\ Head(s) \in chars THEN lstrip(Tail(s), chars) ELSE s

\* str.rstrip(chars)
RECURSIVE rstrip(_, _)
rstrip(s, chars) ==
    IF s # <<>> /\ s[Len(s)] \in chars
    THEN rstrip(SubSeq(s, 1, Len(s) - 1), chars)
    ELSE s

\* str.rfind(c), 1-based; 0 when c does not occur
rfind(s, c) ==
    IF \E i \in 1..Len(s) : s[i] = c
    THEN CHOOSE i \in 1..Len(s) : s[i] = c /\ \A j \in (i+1)..Len(s) : s[j] # c
    ELSE 0

\* str.startswith(prefix)
startswith(s, prefix) ==
    /\ Len(prefix) <= Len(s)
    /\ SubSeq(s, 1, Len(prefix)) = prefix

\* str.split("/") without the empty pieces
RECURSIVE SplitSlash(_, _, _)
SplitSlash(s, cur, acc) ==
    IF s = <<>>
    THEN IF cur = <<>> THEN acc ELSE Append(acc, cur)
    ELSE IF Head(s) = "/"
         THEN SplitSlash(Tail(s), <<>>, IF cur = <<>> THEN acc ELSE Append(acc, cur))
         ELSE SplitSlash(Tail(s), Append(cur, Head(s)), acc)

(***************************************************************************)
(* pathlib.                                                                *)
(***************************************************************************)
\* the working directory of the server process: /t
Cwd == << <<"t">> >>

\* PurePath.name: the last component, empty for the root
PathName(p) == IF p = <<>> THEN <<>> ELSE p[Len(p)]

\* PurePath.parent: the root is its own parent
PathParent(p) == IF p = <<>> THEN <<>> ELSE SubSeq(p, 1, Len(p) - 1)

\* PurePath.suffix: from the last dot of the name, unless the name starts
\* or ends with that dot
PathSuffix(p) ==
    LET n == PathName(p)
        i == rfind(n, ".")
    IN  IF 1 < i /\ i < Len(n) THEN SubSeq(n, i, Len(n)) ELSE <<>>

\* str(path)
RECURSIVE JoinSlash(_)
JoinSlash(p) ==
    IF p = <<>> THEN <<>> ELSE <<"/">> \o Head(p) \o JoinSlash(Tail(p))

PathStr(p) == IF p = <<>> THEN <<"/">> ELSE JoinSlash(p)

\* collapse "." and ".." left to right; ".." at the root stays at the root
RECURSIVE Collapse(_, _)
Collapse(comps, acc) ==
    IF comps = <<>> THEN acc
    ELSE LET c == Head(comps)
         IN  IF c = <<".">> THEN Collapse(Tail(comps), acc)
             ELSE IF c = <<".", ".">>
                  THEN Collapse(Tail(comps), PathParent(acc))
                  ELSE Collapse(Tail(comps), Append(acc, c))

\* Path(s) of an absolute name without "." and "..": its components
PathOf(s) == SplitSlash(s, <<>>, <<>>)

\* whether Path(filename).resolve() raises ValueError (embedded null byte)
ResolveRaises(filename) == \E i \in 1..Len(filename) : filename[i] = NUL

\* Path(filename).resolve(): absolute (relative names start at the working
\* directory), "." and ".." collapsed.  The universe holds no symlinks.
Resolve(filename) ==
    LET comps == SplitSlash(filename, <<>>, <<>>)
    IN  IF filename # <<>> /\ Head(filename) = "/"
        THEN Collapse(comps, <<>>)
        ELSE Collapse(comps, Cwd)

(***************************************************************************)
(* The filesystem.                                                         *)
(***************************************************************************)
P_root == <<>>
P_t    == << <<"t">> >>
P_txt  == << <<"t">>, <<"a", ".", "T", "X", "T">> >>
P_R    == << <<"t">>, <<"R">> >>
P_zz   == << <<"t">>, <<"e", ".", "z", "z">> >>
P_d    == << <<"t">>, <<"d">> >>
P_pdf  == << <<"t">>, <<"d">>, <<"b", ".", "p", "d", "f">> >>
P_fifo == << <<"t">>, <<"p">> >>
P_n    == << <<"n">> >>
P_nf   == << <<"n">>, <<"f", ".", "t", "x", "t">> >>

\* every path the model's filesystem can hold an entry at
Universe == {P_root, P_t, P_txt, P_R, P_zz, P_d, P_pdf, P_fifo, P_n, P_nf}

\* st_size the host filesystem reports for a directory
DirSize == 4096

Absent == [kind |-> "none", content |-> <<>>, size |-> 0, mtime |-> 0]
RegularFile(content, mtime) ==
    [kind |-> "file", content |-> content, size |-> Len(content), mtime |-> mtime]
Directory(mtime) ==
    [kind |-> "dir", content |-> <<>>, size |-> DirSize, mtime |-> mtime]
Fifo(mtime) ==
    [kind |-> "other", content |-> <<>>, size |-> 0, mtime |-> mtime]

\* what another process can create at a free path
NewEntries == {RegularFile(<<>>, 1), RegularFile(<<9>>, 1), Directory(1)}

InitialFs ==
    [p \in Universe |->
        CASE p \in {P_root, P_t, P_d} -> Directory(0)
          [] p = P_txt  -> RegularFile(<<72, 105>>, 0)
          [] p = P_R    -> RegularFile(<<1>>, 0)
          [] p = P_zz   -> RegularFile(<<>>, 0)
          [] p = P_pdf  -> RegularFile(<<37, 80, 68, 70>>, 0)
          [] p = P_fifo -> Fifo(0)
          [] OTHER      -> Absent]

\* the entry at p; a path the filesystem does not know holds nothing
Lookup(f, p) == IF p \in DOMAIN f THEN f[p] ELSE Absent

\* Path.exists(), Path.is_file(), Path.is_dir()
exists(f, p)  == Lookup(f, p).kind # "none"
is_file(f, p) == Lookup(f, p).kind = "file"
is_dir(f, p)  == Lookup(f, p).kind = "dir"

\* p is q or lies below q
Below(p, q) == Len(q) <= Len(p) /\ SubSeq(p, 1, Len(q)) = q

\* an entry exists only inside an existing directory
FsConsistent(f) ==
    /\ f[P_root].kind = "dir"
    /\ \A p \in Universe \ {P_root} :
          f[p].kind # "none" => f[PathParent(p)].kind = "dir"

(***************************************************************************)
(* mimetypes.guess_type, as far as the handler uses it.                    *)
(***************************************************************************)
\* posixpath.splitext(...)[1]: from the last dot of the name, unless only
\* dots precede it
splitext(p) ==
    LET n == PathName(p)
        i == rfind(n, ".")
    IN  IF i > 0 /\ \E j \in 1..(i - 1) : n[j] # "."
        THEN SubSeq(n, i, Len(n))
        ELSE <<>>

\* the registered type of an extension, "None" when there is none
types_map(ext) ==
    CASE ext = <<".", "t", "x", "t">> -> "text/plain"
      [] ext = <<".", "p", "d", "f">> -> "application/pdf"
      [] ext = <<".", "p", "n", "g">> -> "image/png"
      [] OTHER -> "None"

\* the extension is looked up as written, then lower-cased
guess_type(p) ==
    LET ext == splitext(p)
    IN  IF types_map(ext) # "None" THEN types_map(ext) ELSE types_map(lower(ext))

(***************************************************************************)
(* PathMapping (clientutils.pathmapping): an ordered table of              *)
(* logical-prefix -> real-prefix pairs.                                    *)
(***************************************************************************)
NoMapping == <<>>
TheMapping == << [logical |-> <<"/", "L">>, real |-> <<"/", "t">>] >>

\* PathMapping.translate: the first matching prefix is substituted, an
\* input that matches none is returned unchanged
RECURSIVE translate(_, _)
translate(table, path) ==
    IF table = <<>> THEN path
    ELSE IF startswith(path, Head(table).logical)
         THEN Head(table).real
                 \o SubSeq(path, Len(Head(table).logical) + 1, Len(path))
         ELSE translate(Tail(table), path)

(***************************************************************************)
(* FileAccessResource: construction.                                       *)
(***************************************************************************)
\* the base URLs the server is configured with
BaseUrls == { <<"h">>, <<"h", "/">> }

\* __init__: base_url.rstrip("/") + "/"
init_base_url(raw) == rstrip(raw, {"/"}) \o <<"/">>

\* platform.system()
Systems == {"Darwin", "Windows", "Linux"}

(***************************************************************************)
(* Exceptions and responses.                                               *)
(***************************************************************************)
\* the classes an exception of the given type is an instance of
Bases(type) ==
    CASE type = "FileNotFoundError"  -> {"FileNotFoundError", "OSError", "Exception"}
      [] type = "PermissionError"    -> {"PermissionError", "OSError", "Exception"}
      [] type = "CalledProcessError" -> {"CalledProcessError", "SubprocessError", "Exception"}
      [] type = "RuntimeError"       -> {"RuntimeError", "Exception"}
      [] type = "ValueError"         -> {"ValueError", "Exception"}
      [] type = "HTTPException"      -> {"HTTPException", "Exception"}
      [] OTHER                       -> {type}

isinstance(exc, cls) == cls \in Bases(exc.type)

\* an exception object; msg is str(e), status the status_code of an
\* HTTPException (0 for every other type)
Exc(type, msg) == [type |-> type, msg |-> msg, status |-> 0]
HTTPException(status_code, detail) ==
    [type |-> "HTTPException", msg |-> detail, status |-> status_code]

NoResp ==
    [class |-> "none", status |-> 0, media_type |-> "", body |-> <<>>,
     path |-> <<>>, disposition |-> <<>>, detail |-> <<>>]

\* fastapi.responses.HTMLResponse(content=html)
HTMLResponse(html) ==
    [class |-> "HTMLResponse", status |-> 200, media_type |-> "text/html",
     body |-> html, path |-> <<>>, disposition |-> <<>>, detail |-> <<>>]

\* fastapi.responses.FileResponse(path, media_type, filename, headers); the
\* body is read from path when the response is sent
FileResponse(path, media_type, filename) ==
    [class |-> "FileResponse", status |-> 200, media_type |-> media_type,
     body |-> <<>>, path |-> path,
     disposition |-> <<"attachment; filename=", filename>>, detail |-> <<>>]

\* the handler ended by raising exc
Raised(exc) ==
    [class |-> exc.type, status |-> exc.status, media_type |-> "",
     body |-> <<>>, path |-> <<>>, disposition |-> <<>>, detail |-> exc.msg]

\* the route's own rejection of a query (fastapi RequestValidationError)
ValidationError(what) ==
    [class |-> "RequestValidationError", status |-> 422, media_type |-> "",
     body |-> <<>>, path |-> <<>>, disposition |-> <<>>, detail |-> <<what>>]

CLOSE_TAB_HTML == <<[tag |-> "close-tab", data |-> <<"window.close();">>]>>

\* the details of lines 376 and 386 start with the same hint and go on
\* with the words of their branch
HeadlessHint == "Server may be running in headless mode or "
FailedOpen   == "file opening failed: "
FailedBrowse == "directory browsing failed: "

\* what is sent for a FileResponse: nothing yet
NoWire == [status |-> 0, body |-> <<>>]

NoExc == [type |-> "", msg |-> <<>>, status |-> 0]

(***************************************************************************)
(* _format_size: the value divided by 1024.0 once per unit passed, printed *)
(* with two decimals.  value100 is the printed number times 100.           *)
(* A size is written to base 1024, least significant digit first, so that  *)
(* a division by 1024.0 moves the point by one digit and sizes of          *)
(* petabytes can be written; below 2^53 the float arithmetic of the code   *)
(* is exact, and rounding to two decimals goes to the nearest, ties to     *)
(* even.                                                                   *)
(***************************************************************************)
Units == <<"B", "KB", "MB", "GB", "TB">>

\* the digits of a natural number to base 1024, least significant first
RECURSIVE Digits1024(_)
Digits1024(n) ==
    IF n < 1024 THEN <<n>> ELSE <<n % 1024>> \o Digits1024(n \div 1024)

\* the digits without zeros at the most significant end
RECURSIVE Significant(_)
Significant(size) ==
    IF Len(size) > 1 /\ size[Len(size)] = 0
    THEN Significant(SubSeq(size, 1, Len(size) - 1))
    ELSE size

\* size < 1024.0 after divs divisions by 1024.0
Below1024(size, divs) == Len(Significant(size)) <= divs + 1

\* the integer part of size / 1024^divs
RECURSIVE IntPart(_, _)
IntPart(size, divs) ==
    LET s == Significant(size)
    IN  IF Len(s) <= divs THEN 0
        ELSE s[divs + 1] + 1024 * IntPart(s, divs + 1)

\* the fraction digits frac (least significant first) times 100:
\* the carry out of the top digit and the fraction digits that remain
RECURSIVE Times100(_, _, _)
Times100(frac, carry, done) ==
    IF frac = <<>> THEN [carry |-> carry, rest |-> done]
    ELSE LET t == frac[1] * 100 + carry
         IN  Times100(Tail(frac), t \div 1024, Append(done, t % 1024))

\* round(size * 100 / 1024^divs) to the nearest integer, ties to even
Round100(size, divs) ==
    LET m    == Times100(SubSeq(size, 1, divs), 0, <<>>)
        q    == IntPart(size, divs) * 100 + m.carry
        top  == IF m.rest = <<>> THEN 0 ELSE m.rest[Len(m.rest)]
        more == \E j \in 1..(Len(m.rest) - 1) : m.rest[j] # 0
    IN  IF top > 512 \/ (top = 512 /\ (more \/ q % 2 = 1)) THEN q + 1 ELSE q

\* the loop with its fifth unit left out
RECURSIVE format_size_loop_four_units(_, _, _)
format_size_loop_four_units(size, divs, i) ==
    IF i > Len(Units) - 1
    THEN [value100 |-> Round100(size, divs), unit |-> "PB"]
    ELSE IF Below1024(size, divs)
         THEN [value100 |-> Round100(size, divs), unit |-> Units[i]]
         ELSE format_size_loop_four_units(size, divs + 1, i + 1)

RECURSIVE format_size_loop(_, _, _)
format_size_loop(size, divs, i) ==
    IF i > Len(Units)
    THEN [value100 |-> Round100(size, divs), unit |-> "PB"]
    ELSE IF Below1024(size, divs)
         THEN [value100 |-> Round100(size, divs), unit |-> Units[i]]
         ELSE format_size_loop(size, divs + 1, i + 1)

format_size(size) == format_size_loop(size, 0, 1)

(***************************************************************************)
(* get_icon_name, get_action_link, render_info.                            *)
(***************************************************************************)
Chars_32x32 == <<"3", "2", "x", "3", "2", ".", "p", "n", "g">>

\* get_icon_name looking at the extension before the kind of the entry
get_icon_name_extension_first(isdir, file_path) ==
    LET ext == lower(lstrip(PathSuffix(file_path), {"."}))
    IN  IF ext # <<>> THEN ext \o Chars_32x32
        ELSE IF isdir THEN <<"f", "o", "l", "d", "e", "r">> \o Chars_32x32
             ELSE <<"f", "i", "l", "e">> \o Chars_32x32

\* get_icon_name(file_path), given what file_path.is_dir() answered
get_icon_name(isdir, file_path) ==
    IF isdir
    THEN <<"f", "o", "l", "d", "e", "r">> \o Chars_32x32
    ELSE LET ext == lower(lstrip(PathSuffix(file_path), {"."}))
         IN  IF ext # <<>> THEN ext \o Chars_32x32
             ELSE <<"f", "i", "l", "e">> \o Chars_32x32

\* urllib.parse.quote_plus on one character
QuoteChar(c) ==
    IF \/ \E i \in 1..26 : UpperCase[i] = c \/ LowerCase[i] = c
       \/ c \in Digits
       \/ c \in {"_", ".", "-", "~"}
    THEN <<c>>
    ELSE CASE c = " " -> <<"+">>
           [] c = "/" -> <<"%", "2", "F">>
           [] c = ":" -> <<"%", "3", "A">>
           [] c = NUL -> <<"%", "0", "0">>
           [] c = "&" -> <<"%", "2", "6">>
           [] c = "=" -> <<"%", "3", "D">>
           [] c = "?" -> <<"%", "3", "F">>
           [] c = "%" -> <<"%", "2", "5">>
           [] c = "+" -> <<"%", "2", "B">>
           [] OTHER   -> <<"%", "?", "?">>

\* the value put into the query as it is
quote_plus_raw(s) == s

RECURSIVE quote_plus(_)
quote_plus(s) ==
    IF s = <<>> THEN <<>> ELSE QuoteChar(Head(s)) \o quote_plus(Tail(s))

Chars_download == <<"d", "o", "w", "n", "l", "o", "a", "d">>
Chars_browse   == <<"b", "r", "o", "w", "s", "e">>
Chars_open     == <<"o", "p", "e", "n">>

\* urlencode({"filename": filename, "action": action})
urlencode(filename, action) ==
    <<"f", "i", "l", "e", "n", "a", "m", "e", "=">> \o quote_plus(filename)
        \o <<"&", "a", "c", "t", "i", "o", "n", "=">> \o quote_plus(action)

\* get_action_link(filename, action) of a resource with the given base_url
get_action_link(baseurl, filename, action) ==
    baseurl \o <<"f", "i", "l", "e", "?">> \o urlencode(filename, action)

\* _render_default_info returning the whole page whatever noheader is
render_default_info_whole_page(fileinfo, baseurl, openiconName, downloadlink, browselink, openlink, noheader) ==
    << [tag |-> "head", data |-> <<fileinfo.name>>],
       [tag |-> "header", data |-> <<"File Information">>],
       [tag |-> "info-table",
        data |-> <<baseurl \o <<"f", "i", "l", "e", "i", "c", "o", "n", "/">>
                       \o openiconName,
                   fileinfo.name, fileinfo.path, fileinfo.size_formatted,
                   fileinfo.modified, fileinfo.type>>],
       [tag |-> "actions", data |-> <<downloadlink, browselink, openlink>>] >>

\* _render_default_info: the page as its blocks in order
render_default_info(fileinfo, baseurl, openiconName, downloadlink, browselink, openlink, noheader) ==
    LET icon_html == baseurl \o <<"f", "i", "l", "e", "i", "c", "o", "n", "/">>
                         \o openiconName
        table_content ==
            << [tag |-> "info-table",
                data |-> <<icon_html, fileinfo.name, fileinfo.path,
                           fileinfo.size_formatted, fileinfo.modified,
                           fileinfo.type>>],
               [tag |-> "actions",
                data |-> <<downloadlink, browselink, openlink>>] >>
    IN  IF noheader
        THEN table_content
        ELSE << [tag |-> "head", data |-> <<fileinfo.name>>],
                [tag |-> "header", data |-> <<"File Information">>] >>
             \o table_content

\* _render_short_info
render_short_info(fileinfo, downloadlink, browselink, openlink) ==
    << [tag |-> "short-info",
        data |-> <<fileinfo.name, fileinfo.size_formatted,
                   downloadlink, browselink, openlink>>] >>

\* render_info(fileinfo, template_name, noheader); isdir is what
\* Path(fileinfo["path"]).is_dir() answered
render_info(baseurl, isdir, fileinfo, template_name, noheader) ==
    LET file_path    == PathOf(fileinfo.path)
        openiconName == get_icon_name(isdir, file_path)
        downloadlink == get_action_link(baseurl, fileinfo.path, Chars_download)
        browselink   == get_action_link(baseurl, fileinfo.path, Chars_browse)
        openlink     == get_action_link(baseurl, fileinfo.path, Chars_open)
    IN  IF template_name = "shortinfo"
        THEN render_short_info(fileinfo, downloadlink, browselink, openlink)
        ELSE render_default_info(fileinfo, baseurl, openiconName,
                                 downloadlink, browselink, openlink, noheader)

(***************************************************************************)
(* Requests.                                                               *)
(***************************************************************************)
F_txt     == <<"/", "t", "/", "a", ".", "T", "X", "T">>
F_dir     == <<"/", "t", "/", "d">>
F_dots    == <<"/", "t", "/", "d", "/", ".", ".", "/", "R">>
F_missing == <<"/", "n", "/", "f", ".", "t", "x", "t">>
F_rel     == <<"e", ".", "z", "z">>
F_fifo    == <<"/", "t", "/", "p">>
F_nul     == <<"/", "t", "/", NUL>>
F_logical == <<"/", "L", "/", "a", ".", "T", "X", "T">>

\* the filename values requests carry
Filenames == {F_txt, F_dir, F_dots, F_missing, F_rel, F_fifo, F_nul, F_logical}

\* the actions the handler dispatches
Actions == {"info", "shortinfo", "open", "browse", "download"}

\* the action values requests carry
ActionInputs == Actions \cup {"invalid"}

NoInfo ==
    [name |-> <<>>, path |-> <<>>, size |-> 0,
     size_formatted |-> [value100 |-> 0, unit |-> ""],
     modified |-> [format |-> "", timestamp |-> 0],
     type |-> "", extension |-> <<>>, is_file |-> FALSE, is_dir |-> FALSE]

\* a request slot: the handler's position and locals, its result (resp) and
\* what the host server sent for a FileResponse (wire); and the history of
\* the request: the calls made (log), the commands started (launched), what
\* the existence check of line 335 answered (seen), what subprocess.run did
\* (run), the exception that reached the except clauses of the handler
\* (raised), whether the query named a file (has_filename), whether the
\* filesystem was changed since the request arrived (changed), and the
\* filename as it was handed to resolve in line 332 (translated)
IdleReq ==
    [pc |-> "idle", via |-> "none", has_filename |-> TRUE, filename |-> <<>>,
     action |-> "", noheader |-> TRUE, file_path |-> <<>>, fileinfo |-> NoInfo,
     target |-> <<>>, launched |-> <<>>, resp |-> NoResp, wire |-> NoWire,
     seen |-> "unchecked", run |-> "none", raised |-> NoExc,
     changed |-> FALSE, log |-> {}, translated |-> <<>>]

\* handle_file_access was called and has returned or raised
Ended(q) == q.pc \in {"send_file", "done"} /\ "handle_file_access" \in q.log

TypeOK ==
    /\ fs \in [Universe -> [kind : {"none", "file", "dir", "other"},
                            content : Seq(0..255), size : Nat, mtime : Nat]]
    /\ FsConsistent(fs)
    /\ system \in Systems
    /\ fsChanges \in 0..MaxFsChanges
    /\ starts \in 0..MaxStarts
    /\ \A r \in Requests : req[r].action \in ActionInputs \cup {""}

\* a method of the resource called on its own, with its arguments and its
\* result; configured is the base_url argument the resource was built with
NoCall == [method |-> "none", args |-> <<>>, result |-> <<>>, configured |-> <<>>]

Init ==
    /\ fs = InitialFs
    /\ \E raw \in BaseUrls : base_url = init_base_url(raw)
    /\ path_mapping \in {NoMapping, TheMapping}
    /\ system \in Systems
    /\ req = [r \in Requests |-> IdleReq]
    /\ fsChanges = 0
    /\ starts = 0
    /\ call = NoCall

\* the locals of a fresh invocation of handle_file_access
Invoke(via, filename, action, noheader) ==
    [IdleReq EXCEPT !.pc = "translate", !.via = via, !.filename = filename,
                    !.action = action, !.noheader = noheader,
                    !.log = {"handle_file_access"}]

\* the handler ends by returning or raising: resp is what the caller gets
Finish(q, resp) == [q EXCEPT !.pc = "done", !.resp = resp]

\* handle_file_access without its last except clause
handle_file_access_except_no_catch_all(exc) ==
    IF isinstance(exc, "FileNotFoundError")
    THEN HTTPException(404, exc.msg)
    ELSE exc

\* the except clauses of handle_file_access
handle_file_access_except(exc) ==
    IF isinstance(exc, "FileNotFoundError")
    THEN HTTPException(404, exc.msg)
    ELSE IF isinstance(exc, "HTTPException")
         THEN exc
         ELSE IF isinstance(exc, "Exception")
              THEN HTTPException(500, exc.msg)
              ELSE exc

\* an exception raised inside the try block of handle_file_access
Raise(q, exc) ==
    Finish([q EXCEPT !.raised = exc], Raised(handle_file_access_except(exc)))

(***************************************************************************)
(* The route GET /file and direct calls of the handler.                    *)
(***************************************************************************)
\* the action parameter declared without its pattern
ActionPattern_none(action) == TRUE

\* Query(pattern="^(info|shortinfo|open|browse|download)$")
ActionPattern(action) ==
    action \in {"info", "shortinfo", "open", "browse", "download"}

\* access_file: the query is validated against the declared parameters
\* (filename required, action with a default and a pattern, noheader with a
\* default) before the handler is called
access_file(r) ==
    /\ req[r].pc = "idle"
    /\ starts < MaxStarts
    /\ starts' = starts + 1
    /\ \E has_filename \in BOOLEAN, filename \in Filenames,
          has_action \in BOOLEAN, action \in ActionInputs,
          noheader \in BOOLEAN :
          LET act == IF has_action THEN action ELSE "info"
              rejected(what) ==
                  [IdleReq EXCEPT !.pc = "done", !.via = "http",
                                  !.action = act,
                                  !.has_filename = has_filename,
                                  !.filename = IF has_filename THEN filename ELSE <<>>,
                                  !.resp = ValidationError(what)]
          IN  req' = [req EXCEPT ![r] =
                  IF ~has_filename THEN rejected("filename")
                  ELSE IF ~ActionPattern(act) THEN rejected("action")
                  ELSE Invoke("http", filename, act, noheader)]
    /\ UNCHANGED <<fs, base_url, path_mapping, system, fsChanges, call>>

\* handle_file_access(filename, action, noheader) called by other code
call_handler(r) ==
    /\ req[r].pc = "idle"
    /\ starts < MaxStarts
    /\ starts' = starts + 1
    /\ \E filename \in Filenames, action \in ActionInputs, noheader \in BOOLEAN :
          req' = [req EXCEPT ![r] = Invoke("direct", filename, action, noheader)]
    /\ UNCHANGED <<fs, base_url, path_mapping, system, fsChanges, call>>

(***************************************************************************)
(* handle_file_access, one step per filesystem read.                       *)
(***************************************************************************)
\* the filename handed to resolve without looking at the mapping
mapped_filename_unmapped(mapping, filename) == filename

\* lines 329-330: the filename is translated when a mapping is configured
mapped_filename(mapping, filename) ==
    IF mapping # NoMapping THEN translate(mapping, filename) ELSE filename

\* translate_resolve of a handler that drops the mapping of the resource
\* once it has translated a filename
translate_resolve_drops_mapping(r) ==
    LET q == req[r]
        filename == mapped_filename(path_mapping, q.filename)
        t == [q EXCEPT !.translated = filename]
    IN  /\ q.pc = "translate"
        /\ req' = [req EXCEPT ![r] =
              IF ResolveRaises(filename)
              THEN Raise(t, Exc("ValueError", <<"embedded null byte">>))
              ELSE [t EXCEPT !.pc = "exists", !.file_path = Resolve(filename)]]
        /\ path_mapping' = NoMapping
        /\ UNCHANGED <<fs, base_url, system, fsChanges, starts, call>>

\* lines 329-332: translate when a mapping is configured, then resolve
translate_resolve(r) ==
    LET q == req[r]
        filename == mapped_filename(path_mapping, q.filename)
        t == [q EXCEPT !.translated = filename]
    IN  /\ q.pc = "translate"
        /\ req' = [req EXCEPT ![r] =
              IF ResolveRaises(filename)
              THEN Raise(t, Exc("ValueError", <<"embedded null byte">>))
              ELSE [t EXCEPT !.pc = "exists", !.file_path = Resolve(filename)]]
        /\ UNCHANGED <<fs, base_url, path_mapping, system, fsChanges, starts, call>>

\* Dispatch with the download branch handing the file to the desktop
Dispatch_download_opens(action) ==
    CASE action = "info"      -> "gfi_exists"
      [] action = "shortinfo" -> "gfi_exists"
      [] action = "download"  -> "od_exists"
      [] action = "open"      -> "od_exists"
      [] action = "browse"    -> "od_exists"
      [] OTHER                -> "invalid"

\* Dispatch with a final else that falls back to the info branch
Dispatch_else_info(action) ==
    CASE action = "shortinfo" -> "gfi_exists"
      [] action = "download"  -> "dl_is_file"
      [] action = "open"      -> "od_exists"
      [] action = "browse"    -> "od_exists"
      [] OTHER                -> "gfi_exists"

\* the branch of the if/elif chain an action selects
Dispatch(action) ==
    CASE action = "info"      -> "gfi_exists"
      [] action = "shortinfo" -> "gfi_exists"
      [] action = "download"  -> "dl_is_file"
      [] action = "open"      -> "od_exists"
      [] action = "browse"    -> "od_exists"
      [] OTHER                -> "invalid"

\* after_exists looking at the action before the answer of exists()
after_exists_action_first(q, found) ==
    IF Dispatch(q.action) = "invalid"
    THEN Raise([q EXCEPT !.seen = IF found THEN "exists" ELSE "missing"],
               HTTPException(400, <<"Invalid action: ", q.action>>))
    ELSE IF ~found
         THEN Raise([q EXCEPT !.seen = "missing"],
                    HTTPException(204, <<"File not found">>))
         ELSE [q EXCEPT !.seen = "exists", !.pc = Dispatch(q.action)]

\* after_exists answering a missing path with 404, as the older handler did
after_exists_404(q, found) ==
    IF ~found
    THEN Raise([q EXCEPT !.seen = "missing"],
               HTTPException(404, <<"File not found">>))
    ELSE IF Dispatch(q.action) = "invalid"
         THEN Raise([q EXCEPT !.seen = "exists"],
                    HTTPException(400, <<"Invalid action: ", q.action>>))
         ELSE [q EXCEPT !.seen = "exists", !.pc = Dispatch(q.action)]

\* lines 335-390: what follows the answer of file_path.exists(): 204 for a
\* missing path, else the branch of the action, 400 when there is none
after_exists(q, found) ==
    IF ~found
    THEN Raise([q EXCEPT !.seen = "missing"],
               HTTPException(204, <<"File not found">>))
    ELSE IF Dispatch(q.action) = "invalid"
         THEN Raise([q EXCEPT !.seen = "exists"],
                    HTTPException(400, <<"Invalid action: ", q.action>>))
         ELSE [q EXCEPT !.seen = "exists", !.pc = Dispatch(q.action)]

\* the existence check of line 335
check_exists(r) ==
    LET q == req[r]
    IN  /\ q.pc = "exists"
        /\ req' = [req EXCEPT ![r] = after_exists(q, exists(fs, q.file_path))]
        /\ UNCHANGED <<fs, base_url, path_mapping, system, fsChanges, starts, call>>

(***************************************************************************)
(* get_file_info (lines 176-197) and render_info, inside the info and      *)
(* shortinfo branches.                                                     *)
(***************************************************************************)
\* line 176: get_file_info resolves the string it is given once more
InfoPath(q) == Resolve(PathStr(q.file_path))

\* lines 176-179: resolve the path again and check that it exists
gfi_exists(r) ==
    LET q == req[r]
        filepath  == PathStr(q.file_path)
        file_path == InfoPath(q)
        q1 == [q EXCEPT !.log = @ \cup {"get_file_info"}]
    IN  /\ q.pc = "gfi_exists"
        /\ req' = [req EXCEPT ![r] =
              IF ~exists(fs, file_path)
              THEN Raise(q1, Exc("FileNotFoundError", <<"File not found: ", filepath>>))
              ELSE [q1 EXCEPT !.pc = "gfi_stat"]]
        /\ UNCHANGED <<fs, base_url, path_mapping, system, fsChanges, starts, call>>

\* datetime.fromtimestamp(t).strftime("%Y-%m-%d %H:%M:%S")
strftime(t) == [format |-> "%Y-%m-%d %H:%M:%S", timestamp |-> t]

\* lines 181-190: stat(), which raises FileNotFoundError when the entry is
\* gone, and the fields taken from it
gfi_stat(r) ==
    LET q == req[r]
        file_path == InfoPath(q)
        stat == Lookup(fs, file_path)
    IN  /\ q.pc = "gfi_stat"
        /\ req' = [req EXCEPT ![r] =
              IF stat.kind = "none"
              THEN Raise(q, Exc("FileNotFoundError",
                                <<"[Errno 2] No such file or directory: ",
                                  PathStr(file_path)>>))
              ELSE [q EXCEPT !.pc = "gfi_type",
                             !.fileinfo.name = PathName(file_path),
                             !.fileinfo.path = PathStr(file_path),
                             !.fileinfo.size = stat.size,
                             !.fileinfo.size_formatted = format_size(Digits1024(stat.size)),
                             !.fileinfo.modified = strftime(stat.mtime)]]
        /\ UNCHANGED <<fs, base_url, path_mapping, system, fsChanges, starts, call>>

\* line 191: "type"
gfi_type(r) ==
    LET q == req[r]
    IN  /\ q.pc = "gfi_type"
        /\ req' = [req EXCEPT ![r] =
              [q EXCEPT !.pc = "gfi_ext",
                        !.fileinfo.type =
                            IF is_dir(fs, InfoPath(q)) THEN "Directory" ELSE "File"]]
        /\ UNCHANGED <<fs, base_url, path_mapping, system, fsChanges, starts, call>>

\* lines 192-194: "extension"
gfi_ext(r) ==
    LET q == req[r]
    IN  /\ q.pc = "gfi_ext"
        /\ req' = [req EXCEPT ![r] =
              [q EXCEPT !.pc = "gfi_is_file",
                        !.fileinfo.extension =
                            IF is_file(fs, InfoPath(q))
                            THEN lower(lstrip(PathSuffix(InfoPath(q)), {"."}))
                            ELSE <<>>]]
        /\ UNCHANGED <<fs, base_url, path_mapping, system, fsChanges, starts, call>>

\* line 195: "is_file"
gfi_is_file(r) ==
    LET q == req[r]
    IN  /\ q.pc = "gfi_is_file"
        /\ req' = [req EXCEPT ![r] =
              [q EXCEPT !.pc = "gfi_is_dir",
                        !.fileinfo.is_file = is_file(fs, InfoPath(q))]]
        /\ UNCHANGED <<fs, base_url, path_mapping, system, fsChanges, starts, call>>

\* line 196: "is_dir"; get_file_info returns
gfi_is_dir(r) ==
    LET q == req[r]
    IN  /\ q.pc = "gfi_is_dir"
        /\ req' = [req EXCEPT ![r] =
              [q EXCEPT !.pc = "render",
                        !.fileinfo.is_dir = is_dir(fs, InfoPath(q))]]
        /\ UNCHANGED <<fs, base_url, path_mapping, system, fsChanges, starts, call>>

\* TemplateOf with both branches passing the default template
TemplateOf_default(action) == "defaultinfo"

\* the template name the branch of an action passes to render_info
TemplateOf(action) == IF action = "shortinfo" THEN "shortinfo" ELSE "defaultinfo"

\* lines 341-342 and 346-347: render_info (which asks is_dir() for the icon)
\* and the HTMLResponse
render(r) ==
    LET q == req[r]
        isdir == is_dir(fs, PathOf(q.fileinfo.path))
        html == render_info(base_url, isdir, q.fileinfo, TemplateOf(q.action),
                            q.noheader)
    IN  /\ q.pc = "render"
        /\ req' = [req EXCEPT ![r] =
              Finish([q EXCEPT !.log = @ \cup {"render_info"}], HTMLResponse(html))]
        /\ UNCHANGED <<fs, base_url, path_mapping, system, fsChanges, starts, call>>

(***************************************************************************)
(* The download branch (lines 349-367).                                    *)
(***************************************************************************)
\* download_response without the fallback for an unknown type
download_response_no_fallback(file_path) ==
    FileResponse(file_path, guess_type(file_path), PathName(file_path))

\* lines 355-367: the MIME type, with its fallback, and the FileResponse
download_response(file_path) ==
    LET guessed == guess_type(file_path)
        mime_type == IF guessed = "None" THEN "application/octet-stream"
                     ELSE guessed
    IN  FileResponse(file_path, mime_type, PathName(file_path))

\* after_is_file without the check: every existing entry is streamed
after_is_file_unchecked(q, isfile) ==
    [q EXCEPT !.pc = "send_file",
              !.log = @ \cup {"FileResponse"},
              !.resp = FileResponse(q.file_path, "application/octet-stream",
                                    PathName(q.file_path))]

\* lines 350-367: what follows the answer of file_path.is_file()
after_is_file(q, isfile) ==
    IF ~isfile
    THEN Raise(q, HTTPException(400, <<"Cannot download directory">>))
    ELSE [q EXCEPT !.pc = "send_file",
                   !.log = @ \cup {"FileResponse"},
                   !.resp = download_response(q.file_path)]

\* the is_file() check of line 350
dl_is_file(r) ==
    LET q == req[r]
    IN  /\ q.pc = "dl_is_file"
        /\ req' = [req EXCEPT ![r] = after_is_file(q, is_file(fs, q.file_path))]
        /\ UNCHANGED <<fs, base_url, path_mapping, system, fsChanges, starts, call>>

\* the host server sends the FileResponse: the bytes are read from the path
\* now; a path that is no regular file any more is a server error
send_file(r) ==
    LET q == req[r]
        entry == Lookup(fs, q.resp.path)
    IN  /\ q.pc = "send_file"
        /\ req' = [req EXCEPT ![r] =
              IF entry.kind = "file"
              THEN [q EXCEPT !.pc = "done",
                             !.wire = [status |-> 200, body |-> entry.content]]
              ELSE [q EXCEPT !.pc = "done",
                             !.wire = [status |-> 500, body |-> <<>>]]]
        /\ UNCHANGED <<fs, base_url, path_mapping, system, fsChanges, starts, call>>

(***************************************************************************)
(* open_file_in_desktop (lines 292-308) inside the open and browse         *)
(* branches (lines 369-387).                                               *)
(***************************************************************************)
\* the browse branch passing open_parent=False like the open branch
OpenParentOf_never(action) == FALSE

\* the open_parent argument the branch of an action passes
OpenParentOf(action) == action = "browse"

\* the target without the open_parent case
DesktopTarget_path_only(file_path, open_parent) == file_path

\* line 292
DesktopTarget(file_path, open_parent) ==
    IF open_parent THEN PathParent(file_path) ELSE file_path

\* lines 300-305: the command of the host platform
DesktopCommand(sys) ==
    CASE sys = "Darwin"  -> "open"
      [] sys = "Windows" -> "explorer"
      [] OTHER           -> "xdg-open"

\* what subprocess.run(..., check=True) can do: the command runs and exits
\* with 0, runs and exits with another status (CalledProcessError), or
\* cannot be started because the executable is missing (FileNotFoundError)
\* or may not be executed (PermissionError)
RunOutcomes == {"ok", "nonzero", "not_installed", "not_permitted"}

\* the exception subprocess.run raises for an outcome other than "ok"
RunError(outcome, cmd) ==
    CASE outcome = "nonzero" ->
            Exc("CalledProcessError", <<"returned non-zero exit status 1: ", cmd>>)
      [] outcome = "not_installed" ->
            Exc("FileNotFoundError", <<"[Errno 2] No such file or directory: ", cmd>>)
      [] OTHER ->
            Exc("PermissionError", <<"[Errno 13] Permission denied: ", cmd>>)

\* open_file_in_desktop without its except clause
open_file_in_desktop_except_none(exc) == exc

\* lines 307-308: the except clause of open_file_in_desktop
open_file_in_desktop_except(exc) ==
    IF isinstance(exc, "CalledProcessError")
    THEN Exc("RuntimeError", <<"Failed to open file: ", exc.msg>>)
    ELSE exc

\* lines 373-377 and 383-387: the except clause around the call in the
\* open and browse branches
desktop_branch_except(action, exc) ==
    IF isinstance(exc, "RuntimeError")
    THEN HTTPException(500, <<HeadlessHint,
                              IF action = "open" THEN FailedOpen ELSE FailedBrowse,
                              exc.msg>>)
    ELSE exc

\* open_file_in_desktop(file_path, open_parent) on the filesystem f, with
\* outcome what subprocess.run does: whether it returned (True), the
\* exception it raised, and the commands it started
open_file_in_desktop(f, sys, file_path, open_parent, outcome) ==
    LET target == DesktopTarget(file_path, open_parent)
        cmd == DesktopCommand(sys)
        started == <<[cmd |-> cmd, target |-> target]>>
    IN  IF ~exists(f, target)
        THEN [returned |-> FALSE, launched |-> <<>>, run |-> "none",
              raised |-> Exc("FileNotFoundError",
                             <<"Path not found: ", PathStr(target)>>)]
        ELSE IF outcome = "ok"
        THEN [returned |-> TRUE, launched |-> started, run |-> outcome,
              raised |-> NoExc]
        ELSE [returned |-> FALSE, run |-> outcome,
              launched |-> IF outcome = "nonzero" THEN started ELSE <<>>,
              raised |-> open_file_in_desktop_except(RunError(outcome, cmd))]

\* lines 292-295: the target and its existence check
od_exists(r) ==
    LET q == req[r]
        target == DesktopTarget(q.file_path, OpenParentOf(q.action))
        q1 == [q EXCEPT !.log = @ \cup {"open_file_in_desktop"},
                        !.target = target]
    IN  /\ q.pc = "od_exists"
        /\ req' = [req EXCEPT ![r] =
              IF ~exists(fs, target)
              THEN Raise(q1, desktop_branch_except(q.action,
                       Exc("FileNotFoundError",
                           <<"Path not found: ", PathStr(target)>>)))
              ELSE [q1 EXCEPT !.pc = "od_run"]]
        /\ UNCHANGED <<fs, base_url, path_mapping, system, fsChanges, starts, call>>

\* lines 297-308 and the rest of the branch: run the command; launched
\* records every command that was started
od_run(r) ==
    LET q == req[r]
        cmd == DesktopCommand(system)
    IN  /\ q.pc = "od_run"
        /\ \E outcome \in RunOutcomes :
              LET started == outcome \in {"ok", "nonzero"}
                  q1 == [q EXCEPT !.log = @ \cup {"subprocess.run"},
                                  !.run = outcome]
                  q2 == IF started
                        THEN [q1 EXCEPT !.launched =
                                 Append(@, [cmd |-> cmd, target |-> q.target])]
                        ELSE q1
              IN  req' = [req EXCEPT ![r] =
                     IF outcome = "ok"
                     THEN Finish(q2, HTMLResponse(CLOSE_TAB_HTML))
                     ELSE Raise(q2, desktop_branch_except(q.action,
                              open_file_in_desktop_except(RunError(outcome, cmd))))]
        /\ UNCHANGED <<fs, base_url, path_mapping, system, fsChanges, starts, call>>

\* the response has been delivered and the worker is free again
release(r) ==
    /\ req[r].pc = "done"
    /\ req' = [req EXCEPT ![r] = IdleReq]
    /\ UNCHANGED <<fs, base_url, path_mapping, system, fsChanges, starts, call>>

(***************************************************************************)
(* Other processes change the filesystem.                                  *)
(***************************************************************************)
\* every request that has arrived has seen the filesystem change
MarkChanged == [r \in DOMAIN req |->
                  IF req[r].pc # "idle" THEN [req[r] EXCEPT !.changed = TRUE]
                  ELSE req[r]]

\* an entry is removed, with everything below it
fs_remove(p) ==
    /\ fsChanges < MaxFsChanges
    /\ p # P_root
    /\ fs[p].kind # "none"
    /\ fs' = [x \in Universe |-> IF Below(x, p) THEN Absent ELSE fs[x]]
    /\ fsChanges' = fsChanges + 1
    /\ req' = MarkChanged
    /\ UNCHANGED <<base_url, path_mapping, system, starts, call>>

\* an entry is created in an existing directory
fs_create(p) ==
    /\ fsChanges < MaxFsChanges
    /\ p # P_root
    /\ fs[p].kind = "none"
    /\ fs[PathParent(p)].kind = "dir"
    /\ \E e \in NewEntries : fs' = [fs EXCEPT ![p] = e]
    /\ fsChanges' = fsChanges + 1
    /\ req' = MarkChanged
    /\ UNCHANGED <<base_url, path_mapping, system, starts, call>>

(***************************************************************************)
(* The specification.                                                      *)
(***************************************************************************)
Next ==
    \/ \E r \in Requests : access_file(r)
    \/ \E r \in Requests : call_handler(r)
    \/ \E r \in Requests : translate_resolve(r)
    \/ \E r \in Requests : check_exists(r)
    \/ \E r \in Requests : gfi_exists(r)
    \/ \E r \in Requests : gfi_stat(r)
    \/ \E r \in Requests : gfi_type(r)
    \/ \E r \in Requests : gfi_ext(r)
    \/ \E r \in Requests : gfi_is_file(r)
    \/ \E r \in Requests : gfi_is_dir(r)
    \/ \E r \in Requests : render(r)
    \/ \E r \in Requests : dl_is_file(r)
    \/ \E r \in Requests : send_file(r)
    \/ \E r \in Requests : od_exists(r)
    \/ \E r \in Requests : od_run(r)
    \/ \E r \in Requests : release(r)
    \/ \E p \in Universe : fs_remove(p)
    \/ \E p \in Universe : fs_create(p)

Spec == Init /\ [][Next]_vars

(***************************************************************************)
(* Concurrent requests: the route handler is a plain function, which the   *)
(* host server runs in a pool of threads, so that the steps of two         *)
(* invocations on the one FileAccessResource interleave.  The filesystem   *)
(* does not change here.                                                   *)
(***************************************************************************)
Concurrent == {1, 2}

ConcurrentFilenames == {F_txt, F_logical, F_dir, F_missing, F_nul}

InitConcurrent ==
    /\ fs = InitialFs
    /\ \E raw \in BaseUrls : base_url = init_base_url(raw)
    /\ path_mapping \in {NoMapping, TheMapping}
    /\ system \in Systems
    /\ req = [r \in Concurrent |-> IdleReq]
    /\ fsChanges = 0
    /\ starts = 0
    /\ call = NoCall

\* one of the concurrent invocations of handle_file_access begins
invoke_concurrently(r) ==
    /\ req[r].pc = "idle"
    /\ \E filename \in ConcurrentFilenames, action \in ActionInputs,
          noheader \in BOOLEAN :
          req' = [req EXCEPT ![r] = Invoke("direct", filename, action, noheader)]
    /\ UNCHANGED <<fs, base_url, path_mapping, system, fsChanges, starts, call>>

NextConcurrent ==
    \/ \E r \in Concurrent : invoke_concurrently(r)
    \/ \E r \in Concurrent : translate_resolve(r)
    \/ \E r \in Concurrent : check_exists(r)
    \/ \E r \in Concurrent : gfi_exists(r)
    \/ \E r \in Concurrent : gfi_stat(r)
    \/ \E r \in Concurrent : gfi_type(r)
    \/ \E r \in Concurrent : gfi_ext(r)
    \/ \E r \in Concurrent : gfi_is_file(r)
    \/ \E r \in Concurrent : gfi_is_dir(r)
    \/ \E r \in Concurrent : render(r)
    \/ \E r \in Concurrent : dl_is_file(r)
    \/ \E r \in Concurrent : send_file(r)
    \/ \E r \in Concurrent : od_exists(r)
    \/ \E r \in Concurrent : od_run(r)

SpecConcurrent == InitConcurrent /\ [][NextConcurrent]_vars

(***************************************************************************)
(* The methods of the resource called on their own, as the unit tests do:  *)
(* the resource is built with a base URL, then one method at a time is     *)
(* called with arguments of the caller's choice and its result kept.       *)
(***************************************************************************)
\* entries of other names, for the methods that look at the name
P_vD   == << <<"t">>, <<"v", ".", "D">> >>
P_XPDF == << <<"t">>, <<"x", ".", "P", "D", "F">> >>
P_xpdf == << <<"t">>, <<"x", ".", "p", "d", "f">> >>
P_rc   == << <<"t">>, <<".", "r", "c">> >>
P_adot == << <<"t">>, <<"a", ".">> >>
P_gz   == << <<"t">>, <<"a", ".", "t", ".", "G", "z">> >>

MethodPaths == Universe \cup {P_vD, P_XPDF, P_xpdf, P_rc, P_adot, P_gz}

MethodsFs ==
    [p \in MethodPaths |->
        CASE p \in Universe -> InitialFs[p]
          [] p = P_vD      -> Directory(0)
          [] p = P_adot    -> Absent
          [] OTHER         -> RegularFile(<<7>>, 0)]

\* get_file_info(filepath) on a filesystem that does not change during the
\* call, for a path that exists: lines 176 and 181-197
get_file_info(f, filepath) ==
    LET file_path == Resolve(filepath)
        stat      == Lookup(f, file_path)
    IN  [name |-> PathName(file_path),
         path |-> PathStr(file_path),
         size |-> stat.size,
         size_formatted |-> format_size(Digits1024(stat.size)),
         modified |-> strftime(stat.mtime),
         type |-> IF is_dir(f, file_path) THEN "Directory" ELSE "File",
         extension |-> IF is_file(f, file_path)
                       THEN lower(lstrip(PathSuffix(file_path), {"."}))
                       ELSE <<>>,
         is_file |-> is_file(f, file_path),
         is_dir |-> is_dir(f, file_path)]

\* digits to base 1024 of the sizes formatted
MaxSizeDigits == 6

SampleDigits == {0, 1, 1023}

\* the sizes at and around the unit boundaries; those of six digits are
\* below 2^53
Sizes ==
    { size \in UNION { [1..n -> SampleDigits] : n \in 1..MaxSizeDigits } :
          Len(size) >= 6 => size[6] \in {0, 1} }

\* the base_url arguments the resource is built with: without a slash at
\* the end, with one, and with two
MethodBaseUrls == BaseUrls \cup { <<"h", "/", "/">> }

\* the filenames and actions links are built for
LinkFilenames ==
    { F_txt, F_nul, <<"a", " ", "b">>, <<"c", ":", "&", "x", "=", "1">>,
      <<"1", "0", "0", "%", "+", "?">>, <<>> }

LinkActions ==
    { Chars_download, Chars_browse, Chars_open, <<"i", "n", "f", "o">>,
      <<"a", "&", "b">>, <<>> }

\* the template names render_info is called with
TemplateNames == {"defaultinfo", "shortinfo"}

InitMethods ==
    /\ fs = MethodsFs
    /\ \E raw \in MethodBaseUrls :
          /\ base_url = init_base_url(raw)
          /\ call = [NoCall EXCEPT !.configured = raw]
    /\ path_mapping = NoMapping
    /\ system \in Systems
    /\ req = [r \in Requests |-> IdleReq]
    /\ fsChanges = 0
    /\ starts = 0

\* the result of a call
Called(method, args, result) ==
    [call EXCEPT !.method = method, !.args = args, !.result = result]

\* self._format_size(size)
call_format_size ==
    /\ call.method = "none"
    /\ \E size \in Sizes :
          call' = Called("_format_size", <<size>>, format_size(size))
    /\ UNCHANGED <<fs, base_url, path_mapping, system, req, fsChanges, starts>>

\* self.get_icon_name(file_path)
call_get_icon_name ==
    /\ call.method = "none"
    /\ \E file_path \in MethodPaths :
          call' = Called("get_icon_name", <<file_path>>,
                         get_icon_name(is_dir(fs, file_path), file_path))
    /\ UNCHANGED <<fs, base_url, path_mapping, system, req, fsChanges, starts>>

\* self.get_action_link(filename, action)
call_get_action_link ==
    /\ call.method = "none"
    /\ \E filename \in LinkFilenames, action \in LinkActions :
          call' = Called("get_action_link", <<filename, action>>,
                         get_action_link(base_url, filename, action))
    /\ UNCHANGED <<fs, base_url, path_mapping, system, req, fsChanges, starts>>

\* self.render_info(self.get_file_info(filepath), template_name, noheader)
call_render_info ==
    /\ call.method = "none"
    /\ \E file_path \in MethodPaths, template_name \in TemplateNames,
          noheader \in BOOLEAN :
          LET fileinfo == get_file_info(fs, PathStr(file_path))
          IN  /\ exists(fs, Resolve(PathStr(file_path)))
              /\ call' = Called("render_info",
                               <<fileinfo, template_name, noheader>>,
                               render_info(base_url,
                                           is_dir(fs, PathOf(fileinfo.path)),
                                           fileinfo, template_name, noheader))
    /\ UNCHANGED <<fs, base_url, path_mapping, system, req, fsChanges, starts>>

\* self.open_file_in_desktop(file_path, open_parent)
call_open_file_in_desktop ==
    /\ call.method = "none"
    /\ \E file_path \in MethodPaths \ {P_root}, open_parent \in BOOLEAN,
          outcome \in RunOutcomes :
          call' = Called("open_file_in_desktop", <<file_path, open_parent>>,
                         open_file_in_desktop(fs, system, file_path,
                                              open_parent, outcome))
    /\ UNCHANGED <<fs, base_url, path_mapping, system, req, fsChanges, starts>>

\* the caller drops the result
call_returned ==
    /\ call.method # "none"
    /\ call' = Called("none", <<>>, <<>>)
    /\ UNCHANGED <<fs, base_url, path_mapping, system, req, fsChanges, starts>>

NextMethods ==
    \/ call_format_size
    \/ call_get_icon_name
    \/ call_get_action_link
    \/ call_render_info
    \/ call_open_file_in_desktop
    \/ call_returned

SpecMethods == InitMethods /\ [][NextMethods]_vars

(***************************************************************************)
(* Properties of handle_file_access.                                       *)
(***************************************************************************)
\* the calls a request makes on behalf of one of the five actions
ActionCalls == {"get_file_info", "render_info", "FileResponse",
                "open_file_in_desktop", "subprocess.run"}

\* the request did nothing on behalf of an action
NothingDispatched(q) ==
    /\ q.log \cap ActionCalls = {}
    /\ q.launched = <<>>
    /\ q.wire = NoWire
    /\ q.fileinfo = NoInfo

IsHTTPError(q, status) ==
    q.resp.class = "HTTPException" /\ q.resp.status = status

\* C1: a request whose translated and resolved path was missing at the
\* existence check has ended with status 204, and no file information was
\* extracted, nothing rendered, nothing downloaded and nothing opened.
C1_MissingPathEnds204 ==
    \A r \in Requests :
        req[r].seen = "missing" =>
            /\ req[r].pc = "done"
            /\ IsHTTPError(req[r], 204)
            /\ NothingDispatched(req[r])

C1_Witness ==
    \E r \in Requests :
        /\ req[r].seen = "missing"
        /\ req[r].action = "info"
        /\ req[r].filename = F_missing
        /\ req[r].pc = "done"

\* the template a rendered page was made with, by its blocks
TemplateUsed(body) ==
    IF \E i \in 1..Len(body) : body[i].tag = "short-info" THEN "shortinfo"
    ELSE IF \E i \in 1..Len(body) : body[i].tag = "info-table" THEN "defaultinfo"
    ELSE "none"

\* the names a rendered page shows in its table or its compact block
NamesShown(body) ==
    {body[i].data[2] : i \in {j \in 1..Len(body) : body[j].tag = "info-table"}}
    \cup
    {body[i].data[1] : i \in {j \in 1..Len(body) : body[j].tag = "short-info"}}

\* the request found its path and the filesystem has not changed since the
\* request arrived
Undisturbed(q) == q.pc = "done" /\ q.seen = "exists" /\ ~q.changed

\* C2: for an existing path that stays as it is, info answers 200 text/html
\* rendered with the defaultinfo template and shortinfo answers 200
\* text/html rendered with the shortinfo template, whatever the entry and
\* noheader are, and the page shows the entry's base name.
C2_InfoTemplateByAction ==
    \A r \in Requests :
        (Undisturbed(req[r]) /\ req[r].action \in {"info", "shortinfo"}) =>
            /\ req[r].resp.class = "HTMLResponse"
            /\ req[r].resp.status = 200
            /\ req[r].resp.media_type = "text/html"
            /\ TemplateUsed(req[r].resp.body) =
                  (IF req[r].action = "info" THEN "defaultinfo" ELSE "shortinfo")
            /\ NamesShown(req[r].resp.body) = {PathName(req[r].file_path)}

C2_Witness ==
    \E r \in Requests :
        /\ Undisturbed(req[r])
        /\ req[r].action = "shortinfo"
        /\ req[r].noheader = FALSE
        /\ is_dir(fs, req[r].file_path)
        /\ req[r].resp.status = 200

\* C3: download of an existing regular file that stays as it is answers
\* 200, sends exactly the file's bytes (none for an empty file), names the
\* base name in Content-Disposition: attachment, and has the media type
\* guessed from the extension, application/octet-stream when none is.
C3_DownloadByteIdentical ==
    \A r \in Requests :
        (/\ Undisturbed(req[r])
         /\ req[r].action = "download"
         /\ is_file(fs, req[r].file_path)) =>
            /\ req[r].resp.class = "FileResponse"
            /\ req[r].resp.status = 200
            /\ req[r].wire = [status |-> 200, body |-> fs[req[r].file_path].content]
            /\ req[r].resp.disposition =
                  <<"attachment; filename=", PathName(req[r].file_path)>>
            /\ req[r].resp.media_type =
                  (IF guess_type(req[r].file_path) = "None"
                   THEN "application/octet-stream"
                   ELSE guess_type(req[r].file_path))
            /\ req[r].file_path = P_txt => req[r].resp.media_type = "text/plain"
            /\ req[r].file_path \in {P_zz, P_R} =>
                  req[r].resp.media_type = "application/octet-stream"

C3_Witness ==
    \E r \in Requests :
        /\ Undisturbed(req[r])
        /\ req[r].action = "download"
        /\ req[r].file_path = P_zz
        /\ fs[P_zz].kind = "file" /\ fs[P_zz].content = <<>>
        /\ req[r].wire = [status |-> 200, body |-> <<>>]

\* C4: download of an existing directory that stays as it is ends with 400
\* "Cannot download directory", with or without entries in the directory,
\* and no bytes are sent.
C4_DownloadDirectory400 ==
    \A r \in Requests :
        (/\ Undisturbed(req[r])
         /\ req[r].action = "download"
         /\ is_dir(fs, req[r].file_path)) =>
            /\ IsHTTPError(req[r], 400)
            /\ req[r].resp.detail = <<"Cannot download directory">>
            /\ "FileResponse" \notin req[r].log
            /\ req[r].wire = NoWire

C4_Witness ==
    \E r \in Requests :
        /\ Undisturbed(req[r])
        /\ req[r].action = "download"
        /\ req[r].file_path = P_d
        /\ fs[P_d].kind = "dir" /\ fs[P_pdf].kind = "file"
        /\ req[r].resp.status = 400

\* C5: a direct call of the handler with an existing path and an action
\* that is none of the five ends with 400, the detail names the action, and
\* none of the five actions was dispatched.
C5_DirectInvalidAction400 ==
    \A r \in Requests :
        (/\ req[r].via = "direct"
         /\ req[r].seen = "exists"
         /\ req[r].action \notin Actions) =>
            /\ req[r].pc = "done"
            /\ IsHTTPError(req[r], 400)
            /\ req[r].resp.detail = <<"Invalid action: ", req[r].action>>
            /\ NothingDispatched(req[r])

C5_Witness ==
    \E r \in Requests :
        /\ req[r].via = "direct"
        /\ req[r].seen = "exists"
        /\ req[r].action = "invalid"
        /\ req[r].resp.status = 400

\* C6: a query of GET /file without a filename, or with an action that is
\* none of the five, is answered 422 by the route and the handler is not
\* called for it; no request of the route ends with 400 "Invalid action".
C6_RouteRejectsBadQuery ==
    \A r \in Requests :
        req[r].via = "http" =>
            /\ (~req[r].has_filename \/ req[r].action \notin Actions) =>
                  /\ req[r].pc = "done"
                  /\ req[r].resp.class = "RequestValidationError"
                  /\ req[r].resp.status = 422
                  /\ req[r].log = {}
                  /\ NothingDispatched(req[r])
            /\ ~(/\ IsHTTPError(req[r], 400)
                 /\ req[r].resp.detail[1] = "Invalid action: ")

C6_Witness ==
    \E r \in Requests :
        /\ req[r].via = "http"
        /\ req[r].has_filename
        /\ req[r].filename = F_txt
        /\ req[r].action = "invalid"
        /\ req[r].resp.status = 422

\* C7: an open request whose command ran and succeeded is answered 200
\* text/html with the auto-closing page; one whose command exited nonzero
\* ends with 500 and a detail that starts with the headless-mode hint.
C7_OpenSuccessAndNonzero ==
    \A r \in Requests :
        (req[r].action = "open" /\ req[r].pc = "done") =>
            /\ req[r].run = "ok" =>
                  /\ req[r].resp = HTMLResponse(CLOSE_TAB_HTML)
                  /\ req[r].resp.status = 200
                  /\ req[r].resp.media_type = "text/html"
            /\ req[r].run = "nonzero" =>
                  /\ IsHTTPError(req[r], 500)
                  /\ req[r].resp.detail[1] = HeadlessHint

C7_Witness ==
    \E r \in Requests :
        /\ req[r].action = "open"
        /\ req[r].pc = "done"
        /\ req[r].run = "nonzero"
        /\ req[r].resp.status = 500

\* C8: every failure of the desktop command of an open or browse request,
\* a nonzero exit as well as a command that cannot be started, ends with
\* 500 and a detail that carries the headless-mode hint.
C8_EveryFailureHints ==
    \A r \in Requests :
        (/\ req[r].action \in {"open", "browse"}
         /\ req[r].pc = "done"
         /\ req[r].run \in {"nonzero", "not_installed", "not_permitted"}) =>
            /\ IsHTTPError(req[r], 500)
            /\ req[r].resp.detail[1] = HeadlessHint

C10_EndsWith200OrHTTPError ==
    \A r \in Requests :
        Ended(req[r]) =>
            /\ \/ /\ req[r].resp.class \in {"HTMLResponse", "FileResponse"}
                  /\ req[r].resp.status = 200
               \/ /\ req[r].resp.class = "HTTPException"
                  /\ req[r].resp.status \in {204, 400, 404, 500}
            /\ req[r].raised.type \notin {"", "FileNotFoundError", "HTTPException"} =>
                  /\ IsHTTPError(req[r], 500)
                  /\ req[r].resp.detail = req[r].raised.msg

C10_Witness ==
    \E r \in Requests :
        /\ Ended(req[r])
        /\ req[r].filename = F_nul
        /\ req[r].raised.type = "ValueError"
        /\ IsHTTPError(req[r], 500)
        /\ req[r].resp.detail = <<"embedded null byte">>

\* the table has a logical prefix that the filename starts with
Prefixed(mapping, filename) ==
    \E i \in 1..Len(mapping) : startswith(filename, mapping[i].logical)

\* the filename with its logical prefix, the first of the table that
\* matches, replaced by the real prefix of that entry
Substituted(mapping, filename) ==
    LET i == CHOOSE k \in 1..Len(mapping) :
                 /\ startswith(filename, mapping[k].logical)
                 /\ \A j \in 1..(k - 1) : ~startswith(filename, mapping[j].logical)
    IN  mapping[i].real \o
        SubSeq(filename, Len(mapping[i].logical) + 1, Len(filename))

UnitRank(unit) ==
    CASE unit = "B" -> 0 [] unit = "KB" -> 1 [] unit = "MB" -> 2
      [] unit = "GB" -> 3 [] unit = "TB" -> 4 [] unit = "PB" -> 5
      [] OTHER -> 6

\* a <= b for two sizes written to base 1024
LessEq(a, b) ==
    LET x == Significant(a)
        y == Significant(b)
    IN  \/ Len(x) < Len(y)
        \/ /\ Len(x) = Len(y)
           /\ \/ x = y
              \/ \E i \in 1..Len(x) :
                    /\ x[i] < y[i]
                    /\ \A j \in (i + 1)..Len(x) : x[j] = y[j]

\* 1024^k as a size
Power1024(k) == [j \in 1..(k + 1) |-> IF j = k + 1 THEN 1 ELSE 0]

\* 1024^k - 1 as a size
BelowPower1024(k) == [j \in 1..k |-> 1023]

\* the sizes at which the unit changes, and the sizes just below them
Boundaries ==
    { Power1024(k) : k \in 0..6 } \cup { BelowPower1024(k) : k \in 1..6 }

\* C12: _format_size(s) uses the first unit of B, KB, MB, GB, TB at which s,
\* divided by 1024 once per unit before it, is below 1024, and PB when there
\* is none; the unit is one of the six, its rank does not decrease when s
\* grows, and 0, 1024 and 1024*1024 are printed as 0.00 B, 1.00 KB and
\* 1.00 MB.
C12_UnitByMagnitude ==
    call.method = "_format_size" =>
        LET size == call.args[1]
            rank == UnitRank(call.result.unit)
            n    == Len(Significant(size))
        IN  /\ rank \in 0..5
            /\ rank = (IF n - 1 < 5 THEN n - 1 ELSE 5)
            /\ \A t \in Boundaries :
                  /\ LessEq(t, size) => UnitRank(format_size(t).unit) <= rank
                  /\ LessEq(size, t) => rank <= UnitRank(format_size(t).unit)
            /\ size = <<0>> => call.result = [value100 |-> 0, unit |-> "B"]
            /\ size = <<0, 1>> => call.result = [value100 |-> 100, unit |-> "KB"]
            /\ size = <<0, 0, 1>> => call.result = [value100 |-> 100, unit |-> "MB"]

C12_Witness ==
    /\ call.method = "_format_size"
    /\ call.args = << <<1023, 1023, 1023, 1023, 1023>> >>
    /\ call.result = [value100 |-> 102400, unit |-> "TB"]

\* get_file_info has returned its FileInfo to the handler
HasInfo(q) ==
    /\ "get_file_info" \in q.log
    /\ q.raised = NoExc
    /\ q.pc \in {"render", "done"}

\* C13: the FileInfo that get_file_info returns for a directory has size 0.
C13_DirectorySizeZero ==
    \A r \in DOMAIN req :
        (HasInfo(req[r]) /\ ~req[r].changed /\ req[r].fileinfo.is_dir)
            => req[r].fileinfo.size = 0

\* ext is the part of name after its last dot, lower-cased; empty when the
\* name has no dot after its first character
IsLoweredSuffixOf(ext, name) ==
    IF ext = <<>>
    THEN \A i \in 2..(Len(name) - 1) : name[i] # "."
    ELSE /\ Len(name) > Len(ext) + 1
         /\ name[Len(name) - Len(ext)] = "."
         /\ \A i \in 1..Len(ext) :
               /\ ext[i] # "."
               /\ ext[i] = LowerChar(name[Len(name) - Len(ext) + i])

LastDot(name) ==
    IF \E i \in 1..Len(name) : name[i] = "."
    THEN CHOOSE i \in 1..Len(name) :
             /\ name[i] = "."
             /\ \A j \in (i + 1)..Len(name) : name[j] # "."
    ELSE 0

\* the extension of a name in lower case: what follows its last dot, when
\* that dot is neither the first nor the last character
LoweredExtension(name) ==
    LET i == LastDot(name)
    IN  IF 1 < i /\ i < Len(name)
        THEN [k \in 1..(Len(name) - i) |-> LowerChar(name[i + k])]
        ELSE <<>>

Icon_folder == <<"f", "o", "l", "d", "e", "r", "3", "2", "x", "3", "2", ".", "p", "n", "g">>
Icon_file   == <<"f", "i", "l", "e", "3", "2", "x", "3", "2", ".", "p", "n", "g">>
Icon_pdf    == <<"p", "d", "f", "3", "2", "x", "3", "2", ".", "p", "n", "g">>

\* C15: get_icon_name gives 'folder32x32.png' for every directory, whatever
\* its name; for what is not a directory it gives the extension of the name
\* in lower case followed by '32x32.png' ('x.PDF' and 'x.pdf' both give
\* 'pdf32x32.png'), and 'file32x32.png' when the name has no extension; for
\* a regular file with an extension it is the extension field of the
\* file's FileInfo followed by '32x32.png'.
C15_IconByKindAndExtension ==
    call.method = "get_icon_name" =>
        LET file_path == call.args[1]
            name      == PathName(file_path)
            e         == LoweredExtension(name)
            suffix32  == <<"3", "2", "x", "3", "2", ".", "p", "n", "g">>
        IN  /\ Lookup(fs, file_path).kind = "dir" => call.result = Icon_folder
            /\ (Lookup(fs, file_path).kind # "dir" /\ e # <<>>)
                   => call.result = e \o suffix32
            /\ (Lookup(fs, file_path).kind # "dir" /\ e = <<>>)
                   => call.result = Icon_file
            /\ file_path \in {P_XPDF, P_xpdf} => call.result = Icon_pdf
            /\ ( /\ Lookup(fs, file_path).kind = "file"
                 /\ get_file_info(fs, PathStr(file_path)).extension # <<>> )
                   => call.result =
                          get_file_info(fs, PathStr(file_path)).extension \o suffix32

C15_Witness ==
    /\ call.method = "get_icon_name"
    /\ call.args = <<P_XPDF>>
    /\ Lookup(fs, P_XPDF).kind = "file"
    /\ call.result = Icon_pdf

\* the characters that stand for themselves in a query value
Unreserved ==
    {UpperCase[i] : i \in 1..26} \cup {LowerCase[i] : i \in 1..26}
        \cup Digits \cup {"_", ".", "-", "~"}

\* the character a percent escape stands for
Unescape(hi, lo) ==
    CASE <<hi, lo>> = <<"2", "F">> -> "/"
      [] <<hi, lo>> = <<"3", "A">> -> ":"
      [] <<hi, lo>> = <<"0", "0">> -> NUL
      [] <<hi, lo>> = <<"2", "6">> -> "&"
      [] <<hi, lo>> = <<"3", "D">> -> "="
      [] <<hi, lo>> = <<"3", "F">> -> "?"
      [] <<hi, lo>> = <<"2", "5">> -> "%"
      [] <<hi, lo>> = <<"2", "B">> -> "+"
      [] OTHER -> "undefined"

\* enc is a percent-encoded form of value: unreserved characters, '+' for
\* a space, and escapes, and it decodes to value
RECURSIVE Encodes(_, _)
Encodes(enc, value) ==
    IF enc = <<>> THEN value = <<>>
    ELSE IF value = <<>> THEN FALSE
    ELSE IF enc[1] = "%"
         THEN /\ Len(enc) >= 3
              /\ Unescape(enc[2], enc[3]) = value[1]
              /\ Encodes(SubSeq(enc, 4, Len(enc)), Tail(value))
         ELSE /\ \/ enc[1] \in Unreserved /\ enc[1] = value[1]
                 \/ enc[1] = "+" /\ value[1] = " "
              /\ Encodes(Tail(enc), Tail(value))

Chars_file_filename == <<"f", "i", "l", "e", "?", "f", "i", "l", "e", "n", "a", "m", "e", "=">>
Chars_and_action    == <<"&", "a", "c", "t", "i", "o", "n", "=">>

\* link is base, 'file?filename=', an encoding of filename, '&action=' and
\* an encoding of action
IsActionLink(link, base, filename, action) ==
    \E i \in 1..Len(link) :
        /\ link[i] = "&"
        /\ SubSeq(link, 1, Len(base)) = base
        /\ SubSeq(link, Len(base) + 1, Len(base) + 14) = Chars_file_filename
        /\ Encodes(SubSeq(link, Len(base) + 15, i - 1), filename)
        /\ SubSeq(link, i, i + 7) = Chars_and_action
        /\ Encodes(SubSeq(link, i + 8, Len(link)), action)

\* base is url with the slashes at its end replaced by one slash
OneSlashAtEnd(base, url) ==
    \E n \in 0..Len(url) :
        /\ \A i \in (n + 1)..Len(url) : url[i] = "/"
        /\ n > 0 => url[n] # "/"
        /\ base = SubSeq(url, 1, n) \o <<"/">>

\* C16 as stated: the link is '<base>file?filename=<enc>&action=<enc>' with
\* both values percent-encoded, and it starts with the base URL the
\* resource was constructed with, whatever slashes that URL ends with.
C16_LinkStartsWithConfigured ==
    call.method = "get_action_link" =>
        /\ \E base \in {base_url, call.configured} :
              IsActionLink(call.result, base, call.args[1], call.args[2])
        /\ startswith(call.result, call.configured)

\* C16 (amended): the link is '<base>file?filename=<enc>&action=<enc>' with
\* both values percent-encoded, where <base> is the configured base URL
\* with the slashes at its end replaced by exactly one; the link starts
\* with the configured base URL when that URL ends with at most one slash.
C16_LinkStartsWithNormalisedBase ==
    call.method = "get_action_link" =>
        /\ OneSlashAtEnd(base_url, call.configured)
        /\ IsActionLink(call.result, base_url, call.args[1], call.args[2])
        /\ (Len(call.configured) < 2
              \/ SubSeq(call.configured, Len(call.configured) - 1,
                        Len(call.configured)) # <<"/", "/">>)
               => startswith(call.result, call.configured)

C16_Witness ==
    /\ call.method = "get_action_link"
    /\ call.configured = <<"h", "/", "/">>
    /\ call.args = <<F_txt, Chars_download>>
    /\ startswith(call.result, <<"h", "/", "f", "i", "l", "e", "?">>)
    /\ ~startswith(call.result, call.configured)

\* the blocks of a page that carry the given tag
Blocks(html, tag) == { i \in 1..Len(html) : html[i].tag = tag }

\* C17: render_info with template 'defaultinfo' always includes the info
\* table and the three action links (download, browse, open), and includes
\* the page header block exactly when noheader is false; with template
\* 'shortinfo' the output is the same for noheader true and false.
C17_HeaderOnlyWithoutNoheader ==
    call.method = "render_info" =>
        LET fileinfo == call.args[1]
            template == call.args[2]
            noheader == call.args[3]
            html     == call.result
            isdir    == is_dir(fs, PathOf(fileinfo.path))
        IN  /\ template = "defaultinfo" =>
                  /\ \E i \in Blocks(html, "info-table") :
                        /\ html[i].data[2] = fileinfo.name
                        /\ html[i].data[4] = fileinfo.size_formatted
                  /\ \E i \in Blocks(html, "actions") :
                        /\ Len(html[i].data) = 3
                        /\ IsActionLink(html[i].data[1], base_url,
                                        fileinfo.path, Chars_download)
                        /\ IsActionLink(html[i].data[2], base_url,
                                        fileinfo.path, Chars_browse)
                        /\ IsActionLink(html[i].data[3], base_url,
                                        fileinfo.path, Chars_open)
                  /\ (Blocks(html, "header") # {}) <=> ~noheader
            /\ template = "shortinfo" =>
                  html = render_info(base_url, isdir, fileinfo, template, ~noheader)

C17_Witness ==
    /\ call.method = "render_info"
    /\ call.args[1].name = <<"a", ".", "T", "X", "T">>
    /\ call.args[2] = "defaultinfo"
    /\ call.args[3] = FALSE
    /\ Blocks(call.result, "header") # {}
    /\ Blocks(call.result, "info-table") # {}
    /\ Blocks(call.result, "actions") # {}

\* handle_file_access run alone from its call to its end on the filesystem
\* f: lines 327-398 in the order of the code, with outcome what
\* subprocess.run does when the branch gets that far
handle_file_access_alone(f, filename, action, noheader, outcome) ==
    LET name == mapped_filename(path_mapping, filename)
        file_path == Resolve(name)
        target == DesktopTarget(file_path, OpenParentOf(action))
        ends(exc) == Raised(handle_file_access_except(exc))
    IN  IF ResolveRaises(name)
        THEN ends(Exc("ValueError", <<"embedded null byte">>))
        ELSE IF ~exists(f, file_path)
        THEN ends(HTTPException(204, <<"File not found">>))
        ELSE IF action \in {"info", "shortinfo"}
        THEN LET fileinfo == get_file_info(f, PathStr(file_path))
             IN  HTMLResponse(render_info(base_url,
                                          is_dir(f, PathOf(fileinfo.path)),
                                          fileinfo, TemplateOf(action), noheader))
        ELSE IF action = "download"
        THEN IF is_file(f, file_path)
             THEN download_response(file_path)
             ELSE ends(HTTPException(400, <<"Cannot download directory">>))
        ELSE IF action \in {"open", "browse"}
        THEN IF ~exists(f, target)
             THEN ends(desktop_branch_except(action,
                      Exc("FileNotFoundError",
                          <<"Path not found: ", PathStr(target)>>)))
             ELSE IF outcome = "ok"
             THEN HTMLResponse(CLOSE_TAB_HTML)
             ELSE ends(desktop_branch_except(action,
                      open_file_in_desktop_except(
                          RunError(outcome, DesktopCommand(system)))))
        ELSE ends(HTTPException(400, <<"Invalid action: ", action>>))

\* every invocation that has ended has the response of a run alone
ResponseAsAlone ==
    \A r \in DOMAIN req :
        req[r].pc = "done" =>
            req[r].resp = handle_file_access_alone(fs, req[r].filename,
                              req[r].action, req[r].noheader, req[r].run)

\* a step writes no field of the resource and the locals of one invocation
\* at most
WritesOwnLocalsOnly ==
    /\ base_url' = base_url
    /\ path_mapping' = path_mapping
    /\ \E r \in DOMAIN req : \A o \in DOMAIN req \ {r} : req'[o] = req[o]

\* C18: of any number of invocations of handle_file_access interleaved on a
\* filesystem that does not change, each returns the response it returns
\* when run alone: base_url and path_mapping are never written after
\* construction, and a step of one invocation leaves what the others hold.
C18_ConcurrentAsAlone == []ResponseAsAlone /\ [][WritesOwnLocalsOnly]_vars

C18_Witness ==
    /\ 2 \in DOMAIN req
    /\ req[1].pc = "done"
    /\ req[1].action = "download"
    /\ req[1].filename = F_txt
    /\ req[1].resp.class = "FileResponse"
    /\ req[2].pc = "gfi_type"
    /\ req[2].filename = F_dir
    /\ req[2].action = "info"

\* C19: open_file_in_desktop(path, open_parent) fails with a not-found
\* error and starts no command whenever its target, the path or with
\* open_parent the parent of the path, does not exist when it is checked;
\* when the target exists and the command succeeds it returns true.
C19_MissingTargetNotFoundNoLaunch ==
    call.method = "open_file_in_desktop" =>
        LET path   == call.args[1]
            target == IF call.args[2] THEN SubSeq(path, 1, Len(path) - 1) ELSE path
        IN  /\ Lookup(fs, target).kind = "none" =>
                  /\ ~call.result.returned
                  /\ call.result.raised.type = "FileNotFoundError"
                  /\ call.result.raised.msg = <<"Path not found: ", PathStr(target)>>
                  /\ call.result.launched = <<>>
            /\ (Lookup(fs, target).kind # "none" /\ call.result.run = "ok") =>
                  /\ call.result.returned
                  /\ call.result.raised = NoExc
                  /\ Len(call.result.launched) = 1
                  /\ call.result.launched[1].target = target

C19_Witness ==
    /\ call.method = "open_file_in_desktop"
    /\ call.args = <<P_nf, TRUE>>
    /\ Lookup(fs, P_n).kind = "none"
    /\ call.result.raised.type = "FileNotFoundError"
    /\ call.result.launched = <<>>

\* a request has started at most one command, and one only in the open or
\* browse branch after the path and the target were found to exist
LaunchesOnlyWhenOpening ==
    \A r \in DOMAIN req :
        /\ Len(req[r].launched) <= 1
        /\ req[r].launched # <<>> =>
              /\ req[r].action \in {"open", "browse"}
              /\ req[r].seen = "exists"
              /\ {"open_file_in_desktop", "subprocess.run"} \subseteq req[r].log
              /\ req[r].launched[1].target = req[r].target
              /\ ~(req[r].raised.type = "FileNotFoundError"
                     /\ req[r].raised.msg[1] = "Path not found: ")
        /\ req[r].action \in {"info", "shortinfo", "download"} =>
              req[r].launched = <<>>
        /\ (IsHTTPError(req[r], 204) \/ IsHTTPError(req[r], 400)) =>
              req[r].launched = <<>>

\* the filesystem changes only by a step of another process
OnlyOthersChangeFs == fs' # fs => fsChanges' = fsChanges + 1

\* C20: a request starts an external desktop command at most once, and only
\* when its action is 'open' or 'browse' and the target passed the
\* existence checks; requests with action info, shortinfo or download, and
\* every request that ends with 204 or 400, start no command, and no step
\* of a request changes the filesystem.
C20_AtMostOneLaunchNoWrites ==
    []LaunchesOnlyWhenOpening /\ [][OnlyOthersChangeFs]_vars

C20_Witness ==
    \E r \in DOMAIN req :
        /\ req[r].pc = "done"
        /\ req[r].action = "open"
        /\ req[r].file_path = P_d
        /\ req[r].run = "nonzero"
        /\ Len(req[r].launched) = 1
        /\ req[r].launched[1].target = P_d
        /\ fs = InitialFs

\* a lookup inside get_file_info or the target check of
\* open_file_in_desktop found nothing where the check of line 335 had
\* found the path
NestedLookupMissed(q) ==
    /\ q.seen = "exists"
    /\ q.raised.type = "FileNotFoundError"
    /\ \/ "get_file_info" \in q.log /\ q.fileinfo.is_dir = FALSE /\ q.pc = "done"
       \/ "open_file_in_desktop" \in q.log
    /\ "subprocess.run" \notin q.log

\* C21: handle_file_access ends with status 404 only when a lookup inside
\* get_file_info or the target check of open_file_in_desktop misses the
\* target after the existence check of the handler found the path, that is
\* when the target was removed in between; a request during which the
\* filesystem does not change never ends with 404.
C21_NotFoundOnlyByRace ==
    \A r \in DOMAIN req :
        (Ended(req[r]) /\ IsHTTPError(req[r], 404)) =>
            /\ req[r].changed
            /\ NestedLookupMissed(req[r])

\* C22: the existence check comes before the action check: a request for
\* a path that does not exist ends with 204 and never with 400, both when
\* its action is none of info, shortinfo, open, browse, download and when
\* its action is download; a request ends with 400 only after the
\* existence check has found its path.
C22_ExistenceBeforeAction ==
    \A r \in DOMAIN req :
        Ended(req[r]) =>
            /\ ( /\ \/ req[r].seen = "missing"
                    \/ /\ ~req[r].changed
                       /\ req[r].raised.type # "ValueError"
                       /\ ~exists(fs, req[r].file_path)
                 /\ req[r].action \notin {"info", "shortinfo", "open", "browse"} )
                   => /\ IsHTTPError(req[r], 204)
                      /\ ~IsHTTPError(req[r], 400)
            /\ IsHTTPError(req[r], 400) => req[r].seen = "exists"

C22_Witness ==
    \E r \in DOMAIN req :
        /\ Ended(req[r])
        /\ req[r].action = "invalid"
        /\ req[r].filename = F_missing
        /\ ~exists(fs, req[r].file_path)
        /\ req[r].seen = "missing"
        /\ IsHTTPError(req[r], 204)

\* C23: a download request ends with status 400 only when its resolved
\* target is a directory; here for a request during which the filesystem
\* stays as it is, so that the target at the end is the target that was
\* checked: one that is no directory, such as an entry that is neither a
\* regular file nor a directory, never ends with 400.
C23_Download400OnlyForDirectory ==
    \A r \in DOMAIN req :
        ( /\ Ended(req[r])
          /\ req[r].action = "download"
          /\ IsHTTPError(req[r], 400)
          /\ ~req[r].changed )
            => is_dir(fs, req[r].file_path)

====
